---- MODULE Spec2Model ----
(***************************************************************************)
(* Training / evaluation control loop of msg3d/main.py (class Processor):  *)
(* construction (load_optimizer, load_lr_scheduler), start(), train(),     *)
(* eval(), save_weights(), save_checkpoint(), and load_model().  Spec is   *)
(* the run with eval() as one step; SpecEval is the test-phase run with    *)
(* eval() view by view; SpecLoad is load_model and save_weights on the     *)
(* parameters of a model.                                                  *)
(*                                                                         *)
(* Losses are written in tenths (1.0 is 10, 1.3 is 13); the sentinel of an *)
(* unset best validation loss is -1 as in the source.  global_step is kept *)
(* as an exact fraction <<numerator, denominator>> because start() sets it *)
(* with a true division.                                                   *)
(***************************************************************************)
EXTENDS Integers, Sequences, FiniteSets, TLC

VARIABLES
    arg,                    \* the parsed command line (self.arg), fixed for a run
    data_loader,            \* [train |-> len(self.data_loader['train'])]
    pc,                     \* control point of the run
    error,                  \* the exception that ended the run, "" if none
    optimizer,              \* [kind, state]: self.optimizer and its internal step counter
    lr_scheduler,           \* [kind, last_epoch]: self.lr_scheduler, kind "None" when unset
    epoch,                  \* loop variable of start()
    save_model,             \* local of start(), argument of train()
    batch_idx,              \* macro-batches of the current train() already stepped
    split,                  \* micro-batches of the current macro-batch already run
    grads,                  \* backward passes accumulated since the last zero_grad()
    global_step,            \* self.global_step as <<numerator, denominator>>
    best_acc,               \* self.best_acc
    best_acc_epoch,         \* self.best_acc_epoch
    best_loss_val,          \* self.best_loss_val (-1: unset)
    counter_early_stopping, \* self.counter_early_stopping
    weights_files,          \* labels n of the files weights-n.pt written by this run
    checkpoint_files,       \* the checkpoints written by this run
    fwd_passes,             \* forward/backward passes of train() so far
    opt_steps,              \* optimizer.step() calls so far
    eval_passes,            \* evaluation passes (eval() calls that were not skipped)
    lossHist,               \* fused validation losses of the evaluated epochs, in order
    gs_entry,               \* global_step at the entry of the current train()
    trained,                \* epochs (0-based) whose train() was entered
    accuracy,               \* eval(): the fused top-1 accuracy of the last evaluation
    zero_grads,             \* optimizer.zero_grad() calls so far
    micro_batches,          \* <<left, right>> of the micro-batches run since zero_grad()
    score_files,            \* labels n of the files epoch<n>_test_score.pkl written
    report_files,           \* the report files eval() has opened for writing
    live_model,             \* load_model: the live model's state_dict, name -> tensor
    snapshot,               \* load_model: the loaded weights file, a sequence of <<name, tensor>>
    ignore_weights,         \* load_model: arg.ignore_weights
    load_pc,                \* load_model: "idle", "ready", "loaded" or "raised"
    load_log,               \* load_model: parameter names logged as not found
    tta,                    \* arg.tta: the loader of each configured view, a sequence of samples
    use_tta,                \* arg.use_tta
    loader_name,            \* self.lst_name_test_tta: the views eval() goes through
    lst_score,              \* eval(): the score matrices of the views done so far
    score,                  \* eval(): the fused score matrix, entries <<sum, iter>>
    f_r,                    \* eval(): lines written to the result file
    f_w,                    \* eval(): lines written to the wrong-samples file
    saved_model,            \* the state_dict handed to save_weights
    eval_pc                 \* control point of the evaluation run

vars == <<arg, data_loader, pc, error, optimizer, lr_scheduler, epoch, save_model,
          batch_idx, split, grads, global_step, best_acc, best_acc_epoch,
          best_loss_val, counter_early_stopping, weights_files, checkpoint_files,
          fwd_passes, opt_steps, eval_passes, lossHist, gs_entry, trained,
          accuracy, zero_grads, micro_batches, score_files, report_files,
          live_model, snapshot, ignore_weights, load_pc, load_log,
          tta, use_tta, loader_name, lst_score, score, f_r, f_w, saved_model, eval_pc>>

runVars == <<arg, data_loader, pc, error, optimizer, lr_scheduler, epoch, save_model,
             batch_idx, split, grads, global_step, best_acc, best_acc_epoch,
             best_loss_val, counter_early_stopping, weights_files, checkpoint_files,
             fwd_passes, opt_steps, eval_passes, lossHist, gs_entry, trained,
             accuracy, zero_grads, micro_batches, score_files, report_files>>

loadVars == <<live_model, snapshot, ignore_weights, load_pc, load_log, saved_model>>

evalVars == <<tta, use_tta, loader_name, lst_score, score, f_r, f_w, eval_pc>>

----------------------------------------------------------------------------
(* Bounds of the model.                                                    *)

MaxEpoch == 4
MaxStartEpoch == 1
MaxSaveInterval == 2
MaxEvalStart == 2
MaxEarlyStopping == 2
MaxEpochWarn == 1
MaxBatchSize == 4
MaxForwardBatchSize == 2
MaxLoaderLen == 2
MaxSnapLen == 2
MaxViews == 2
MaxSamples == 2

\* fused validation losses an evaluation can produce, in tenths
LossValues == {10, 11, 12, 13}
\* fused top-1 accuracies an evaluation can produce, in sixths
AccValues == {0, 1, 2}

----------------------------------------------------------------------------
(* Files and names the command line can point at.                          *)

SupportedOptimizers == {"SGD", "Adam"}
SupportedSchedulers == {"MultiStepLR", "ReduceLROnPlateau", "CosineAnnealingLR"}

\* the content save_checkpoint(n) leaves on disk after n epochs of a run with
\* one optimizer step per epoch and a schedule stepped once per epoch
CheckpointSaved(n) ==
    [epoch |-> n, optimizer_states |-> n, lr_scheduler_states |-> n]

\* torch.load(self.arg.checkpoint)
TorchLoadCheckpoint(path) ==
    CASE path = "checkpoint-1.pt" -> CheckpointSaved(1)
      [] path = "checkpoint-2.pt" -> CheckpointSaved(2)

CheckpointPaths == {"checkpoint-1.pt", "checkpoint-2.pt"}

----------------------------------------------------------------------------
(* Pure decisions of the source, one operator per condition.               *)

\* load_optimizer: the names with a branch; any other name raises ValueError
OptimizerSupported(name) == name \in SupportedOptimizers

\* load_optimizer: the optimizer built, its state taken from the checkpoint if any
load_optimizer(a) ==
    [kind  |-> a.optimizer,
     state |-> IF a.checkpoint # "None"
               THEN TorchLoadCheckpoint(a.checkpoint).optimizer_states
               ELSE 0]

\* load_lr_scheduler: the three `if` branches; no branch, no scheduler (None)
SchedulerKind(name) == IF name \in SupportedSchedulers THEN name ELSE "None"

\* load_lr_scheduler: the scheduler built, its state taken from the checkpoint if any
load_lr_scheduler(a) ==
    [kind       |-> SchedulerKind(a.lr_scheduler),
     last_epoch |-> IF a.checkpoint # "None"
                    THEN TorchLoadCheckpoint(a.checkpoint).lr_scheduler_states
                    ELSE 0]

\* load_lr_scheduler: self.lr_scheduler.load_state_dict on None raises AttributeError
SchedulerLoadRaises(a) ==
    a.checkpoint # "None" /\ SchedulerKind(a.lr_scheduler) = "None"

\* start(): self.global_step = start_epoch * len(loader) / batch_size (true division)
InitialGlobalStep(a, dl) == <<a.start_epoch * dl.train, a.batch_size>>

\* mutant: the step counter advanced twice per batch
StepPlusOne_Twice(gs) == <<gs[1] + 2 * gs[2], gs[2]>>

\* self.global_step += 1 on the fraction
StepPlusOne(gs) == <<gs[1] + gs[2], gs[2]>>

\* int(self.global_step)
IntOf(gs) == gs[1] \div gs[2]

\* start(): the first epoch of range(start_epoch, num_epoch)
FirstEpoch(a) == a.start_epoch

\* start(): save_model of epoch e
SaveModel(e, a) == ((e + 1) % a.save_interval = 0) \/ (e + 1 = a.num_epoch)

\* mutant: the break taken as soon as the counter reaches the threshold
EarlyStop_AtThreshold(a, counter) ==
    a.early_stopping > 0 /\ counter > 0 /\ counter >= a.early_stopping

\* start(): the break after eval()
EarlyStop(a, counter) ==
    a.early_stopping > 0 /\ counter > 0 /\ counter > a.early_stopping

\* train(): splits = len(data) // forward_batch_size; the loader drops the last
\* incomplete batch, so len(data) is batch_size
Splits(a) == a.batch_size \div a.forward_batch_size

\* mutant: the operands of the assert's modulo exchanged
BatchDivisible_Swapped(a) == a.forward_batch_size % a.batch_size = 0

\* train(): the assert on len(data) % real_batch_size
BatchDivisible(a) == a.batch_size % a.forward_batch_size = 0

\* mutant: the warm-up taken to last one epoch longer
StepsInTrain_AfterWarn(sched, a, e) ==
    sched.kind # "None" /\ a.lr_scheduler # "ReduceLROnPlateau" /\ e > a.epoch_warn

\* train(): the scheduler is stepped at the end of the epoch
StepsInTrain(sched, a, e) ==
    sched.kind # "None" /\ a.lr_scheduler # "ReduceLROnPlateau" /\ e >= a.epoch_warn

\* eval(): the scheduler is stepped with the validation loss
StepsInEval(sched, a) ==
    sched.kind # "None" /\ a.lr_scheduler = "ReduceLROnPlateau"

\* mutant: the early return taken one epoch less
EvalSkipped_OneLess(e, a) == e + 2 < a.eval_start

\* eval(): the early return
EvalSkipped(e, a) == e + 1 < a.eval_start

\* mutant: a loss equal to the best counted as worse
LossWorse_OrEqual(loss, best) == loss >= best /\ best # -1

\* eval(): the condition that increments the early-stopping counter
LossWorse(loss, best) == loss > best /\ best # -1

\* eval(): counter_early_stopping after the evaluation
NewCounter(loss, best, counter) == IF LossWorse(loss, best) THEN counter + 1 ELSE 0

\* eval(): best_loss_val after the evaluation
NewBestLoss(loss, best) == IF LossWorse(loss, best) THEN best ELSE loss

\* mutant: an accuracy equal to the best counted as an improvement
AccImproves_OrEqual(acc, best) == acc >= best

\* eval(): the best-accuracy update
AccImproves(acc, best) == acc > best

\* save_checkpoint: the file name and the state written
CheckpointFile(e, a, gs, opt, sched) ==
    [epoch |-> e, fwbz |-> a.forward_batch_size, step |-> IntOf(gs),
     states |-> [epoch |-> e, optimizer_states |-> opt.state,
                 lr_scheduler_states |-> sched.last_epoch]]

\* save_checkpoint: self.lr_scheduler.state_dict() on None raises AttributeError
SaveCheckpointRaises(sched) == sched.kind = "None"

StepScheduler(sched) == [sched EXCEPT !.last_epoch = @ + 1]

----------------------------------------------------------------------------
(* The configurations explored: slices around the defaults of get_parser.  *)

BaseArg ==
    [phase |-> "train", optimizer |-> "SGD", lr_scheduler |-> "MultiStepLR",
     weights |-> "None", checkpoint |-> "None", start_epoch |-> 0, num_epoch |-> 1,
     save_interval |-> 1, eval_start |-> 1, early_stopping |-> 0, epoch_warn |-> 0,
     batch_size |-> 1, forward_batch_size |-> 1, save_score |-> FALSE,
     debug |-> FALSE]

\* the start epochs of a run of n epochs: none of them past the last one
StartEpochs(n) == { s \in 0..MaxStartEpoch : s <= n }

\* the epoch loop: epochs, evaluation start, early stopping
LoopArgs ==
    UNION { { [BaseArg EXCEPT !.start_epoch = s, !.num_epoch = n,
                              !.eval_start = ev, !.early_stopping = es] :
                s \in StartEpochs(n), ev \in 1..MaxEvalStart,
                es \in 0..MaxEarlyStopping } :
            n \in 1..MaxEpoch }

\* saving: epochs and save interval
SaveArgs ==
    UNION { { [BaseArg EXCEPT !.start_epoch = s, !.num_epoch = n,
                              !.save_interval = si, !.early_stopping = es] :
                s \in StartEpochs(n), si \in 1..MaxSaveInterval, es \in {0, 1} } :
            n \in 1..MaxEpoch }

\* the schedule: kind and warm-up
ScheduleArgs ==
    { [BaseArg EXCEPT !.lr_scheduler = ls, !.epoch_warn = w, !.num_epoch = 2,
                      !.eval_start = ev] :
        ls \in SupportedSchedulers, w \in 0..MaxEpochWarn, ev \in 1..MaxEvalStart }

\* construction and phase: names, weights, checkpoint
SetupArgs ==
    { [BaseArg EXCEPT !.phase = ph, !.optimizer = o, !.lr_scheduler = ls,
                      !.weights = w, !.checkpoint = c, !.start_epoch = s,
                      !.num_epoch = 2, !.eval_start = ev, !.save_interval = si] :
        ph \in {"train", "test"}, o \in SupportedOptimizers \cup {"RMSprop"},
        ls \in {"MultiStepLR", "ReduceLROnPlateau", "StepLR"},
        w \in {"None", "weights-2.pt"}, c \in {"None"} \cup CheckpointPaths,
        s \in StartEpochs(2), ev \in 1..MaxEvalStart, si \in 1..MaxSaveInterval }

\* gradient accumulation: macro- and micro-batch sizes
BatchArgs ==
    { [BaseArg EXCEPT !.batch_size = b, !.forward_batch_size = f, !.num_epoch = 2] :
        b \in 1..MaxBatchSize, f \in 1..MaxForwardBatchSize }

\* the files of an evaluation: phase, score saving, debug mode of the test feeder
ReportArgs ==
    { [BaseArg EXCEPT !.phase = ph, !.weights = "weights-2.pt", !.save_score = ss,
                      !.debug = d, !.eval_start = ev, !.num_epoch = 2] :
        ph \in {"train", "test"}, ss \in BOOLEAN, d \in BOOLEAN,
        ev \in 1..MaxEvalStart }

\* resuming: start epoch and macro-batch size
ResumeArgs ==
    { [BaseArg EXCEPT !.start_epoch = st, !.batch_size = b, !.num_epoch = 2] :
        st \in StartEpochs(2), b \in 1..2 }

Configs ==
    ((LoopArgs \cup SaveArgs \cup ScheduleArgs \cup SetupArgs \cup ReportArgs)
        \X {[train |-> 1]})
    \cup ((BatchArgs \cup ResumeArgs) \X {[train |-> n] : n \in 1..MaxLoaderLen})

----------------------------------------------------------------------------
(* The run: Processor.__init__, start(), train(), eval().                  *)

RunFields ==
    /\ pc = "new"
    /\ error = ""
    /\ optimizer = [kind |-> "None", state |-> 0]
    /\ lr_scheduler = [kind |-> "None", last_epoch |-> 0]
    /\ epoch = 0
    /\ save_model = FALSE
    /\ batch_idx = 0
    /\ split = 0
    /\ grads = 0
    /\ global_step = <<0, 1>>
    /\ best_acc = 0
    /\ best_acc_epoch = 0
    /\ best_loss_val = -1
    /\ counter_early_stopping = 0
    /\ weights_files = {}
    /\ checkpoint_files = {}
    /\ fwd_passes = 0
    /\ opt_steps = 0
    /\ eval_passes = 0
    /\ lossHist = <<>>
    /\ gs_entry = <<0, 1>>
    /\ trained = {}
    /\ accuracy = 0
    /\ zero_grads = 0
    /\ micro_batches = <<>>
    /\ score_files = {}
    /\ report_files = {}

RunInit ==
    /\ \E c \in Configs : arg = c[1] /\ data_loader = c[2]
    /\ RunFields

\* an exception leaves the run: nothing else changes
Raise(e) ==
    /\ pc' = "aborted"
    /\ error' = e

\* Processor.__init__ from load_optimizer on (load_model has returned)
ProcessorInit ==
    /\ pc = "new"
    /\ IF ~OptimizerSupported(arg.optimizer)
       THEN /\ Raise("ValueError: Unsupported optimizer")
            /\ UNCHANGED <<optimizer, lr_scheduler>>
       ELSE IF SchedulerLoadRaises(arg)
       THEN /\ Raise("AttributeError: lr_scheduler is None")
            /\ optimizer' = load_optimizer(arg)
            /\ lr_scheduler' = [kind |-> "None", last_epoch |-> 0]
       ELSE /\ pc' = "constructed"
            /\ error' = ""
            /\ optimizer' = load_optimizer(arg)
            /\ lr_scheduler' = load_lr_scheduler(arg)
    /\ global_step' = <<0, 1>>
    /\ best_acc' = 0
    /\ best_acc_epoch' = 0
    /\ best_loss_val' = -1
    /\ counter_early_stopping' = 0
    /\ UNCHANGED <<arg, data_loader, epoch, save_model, batch_idx, split, grads,
                   weights_files, checkpoint_files, fwd_passes, opt_steps,
                   eval_passes, lossHist, gs_entry, trained>>
    /\ UNCHANGED <<accuracy, zero_grads, micro_batches, score_files, report_files>>
    /\ UNCHANGED loadVars
    /\ UNCHANGED evalVars

\* the body of eval(e, ...) with the fused loss and accuracy the views produce and
\* the report files it is given
evalBody(e, loss, acc, files) ==
    IF EvalSkipped(e, arg)
    THEN UNCHANGED <<best_acc, best_acc_epoch, best_loss_val, counter_early_stopping,
                     lr_scheduler, eval_passes, lossHist, accuracy, score_files,
                     report_files>>
    ELSE /\ report_files' = report_files \cup files
         /\ accuracy' = acc
         /\ score_files' = IF arg.save_score THEN score_files \cup {e + 1}
                           ELSE score_files
         /\ best_acc' = IF AccImproves(acc, best_acc) THEN acc ELSE best_acc
         /\ best_acc_epoch' = IF AccImproves(acc, best_acc) THEN e + 1 ELSE best_acc_epoch
         /\ counter_early_stopping' = NewCounter(loss, best_loss_val, counter_early_stopping)
         /\ best_loss_val' = NewBestLoss(loss, best_loss_val)
         /\ lr_scheduler' = IF StepsInEval(lr_scheduler, arg)
                            THEN StepScheduler(lr_scheduler) ELSE lr_scheduler
         /\ eval_passes' = eval_passes + 1
         /\ lossHist' = Append(lossHist, loss)

\* the for statement of start(): enter train(e) or leave the loop
EnterEpoch(e) ==
    IF e < arg.num_epoch
    THEN /\ pc' = "train"
         /\ epoch' = e
         /\ save_model' = SaveModel(e, arg)
         /\ trained' = trained \cup {e}
    ELSE /\ pc' = "done"
         /\ UNCHANGED <<epoch, save_model, trained>>

\* start(), phase 'train': global_step and the first iteration of the loop
StartTrain ==
    /\ pc = "constructed"
    /\ arg.phase = "train"
    /\ global_step' = InitialGlobalStep(arg, data_loader)
    /\ gs_entry' = InitialGlobalStep(arg, data_loader)
    /\ EnterEpoch(FirstEpoch(arg))
    /\ batch_idx' = 0
    /\ UNCHANGED <<arg, data_loader, error, optimizer, lr_scheduler, split, grads,
                   best_acc, best_acc_epoch, best_loss_val, counter_early_stopping,
                   weights_files, checkpoint_files, fwd_passes, opt_steps,
                   eval_passes, lossHist>>
    /\ UNCHANGED <<accuracy, zero_grads, micro_batches, score_files, report_files>>
    /\ UNCHANGED loadVars
    /\ UNCHANGED evalVars

\* start(), phase 'test': wf and rf, unset when the test feeder is in debug mode
ReportFiles(a) ==
    IF ~a.debug THEN {"wrong-samples.txt", "right-samples.txt"} ELSE {}

\* start(), phase 'test': the weights check and the single eval(epoch=0)
StartTest ==
    /\ pc = "constructed"
    /\ arg.phase = "test"
    /\ IF arg.weights = "None"
       THEN /\ Raise("ValueError: Please appoint --weights.")
            /\ UNCHANGED <<best_acc, best_acc_epoch, best_loss_val,
                           counter_early_stopping, lr_scheduler, eval_passes, lossHist,
                           accuracy, score_files, report_files>>
       ELSE /\ pc' = "done"
            /\ error' = ""
            /\ \E loss \in LossValues, acc \in AccValues :
                   evalBody(0, loss, acc, ReportFiles(arg))
    /\ UNCHANGED <<arg, data_loader, optimizer, epoch, save_model, batch_idx, split,
                   grads, global_step, weights_files, checkpoint_files, fwd_passes,
                   opt_steps, gs_entry, trained, zero_grads, micro_batches>>
    /\ UNCHANGED loadVars
    /\ UNCHANGED evalVars

\* train(): one iteration header of the batch loop, up to the assert
TrainFetch ==
    /\ pc = "train"
    /\ batch_idx < data_loader.train
    /\ global_step' = StepPlusOne(global_step)
    /\ zero_grads' = zero_grads + 1
    /\ grads' = 0
    /\ micro_batches' = <<>>
    /\ split' = 0
    /\ IF BatchDivisible(arg)
       THEN pc' = "micro" /\ error' = ""
       ELSE Raise("AssertionError: Real batch size should be a factor of arg.batch_size!")
    /\ UNCHANGED <<arg, data_loader, optimizer, lr_scheduler, epoch, save_model,
                   batch_idx, best_acc, best_acc_epoch, best_loss_val,
                   counter_early_stopping, weights_files, checkpoint_files,
                   fwd_passes, opt_steps, eval_passes, lossHist, gs_entry, trained,
                   accuracy, score_files, report_files>>
    /\ UNCHANGED loadVars
    /\ UNCHANGED evalVars

\* mutant: the micro-batches taken one sample apart
MicroBatch_Stride1(a, i) == <<i, i + a.forward_batch_size>>

\* train(): left and right of data[left:right], the micro-batch i
MicroBatch(a, i) ==
    <<i * a.forward_batch_size, i * a.forward_batch_size + a.forward_batch_size>>

\* train(): forward and backward pass of one micro-batch
TrainMicroBatch ==
    /\ pc = "micro"
    /\ split < Splits(arg)
    /\ micro_batches' = Append(micro_batches, MicroBatch(arg, split))
    /\ split' = split + 1
    /\ grads' = grads + 1
    /\ fwd_passes' = fwd_passes + 1
    /\ UNCHANGED <<arg, data_loader, pc, error, optimizer, lr_scheduler, epoch,
                   save_model, batch_idx, global_step, best_acc, best_acc_epoch,
                   best_loss_val, counter_early_stopping, weights_files,
                   checkpoint_files, opt_steps, eval_passes, lossHist, gs_entry,
                   trained, accuracy, zero_grads, score_files, report_files>>
    /\ UNCHANGED loadVars
    /\ UNCHANGED evalVars

\* train(): self.optimizer.step() after the last micro-batch
TrainOptimizerStep ==
    /\ pc = "micro"
    /\ split = Splits(arg)
    /\ optimizer' = [optimizer EXCEPT !.state = @ + 1]
    /\ opt_steps' = opt_steps + 1
    /\ batch_idx' = batch_idx + 1
    /\ pc' = "train"
    /\ UNCHANGED <<arg, data_loader, error, lr_scheduler, epoch, save_model, split,
                   grads, global_step, best_acc, best_acc_epoch, best_loss_val,
                   counter_early_stopping, weights_files, checkpoint_files,
                   fwd_passes, eval_passes, lossHist, gs_entry, trained>>
    /\ UNCHANGED <<accuracy, zero_grads, micro_batches, score_files, report_files>>
    /\ UNCHANGED loadVars
    /\ UNCHANGED evalVars

\* train(): after the batch loop, the schedule step and the two saves
TrainEnd ==
    /\ pc = "train"
    /\ batch_idx = data_loader.train
    /\ lr_scheduler' = IF StepsInTrain(lr_scheduler, arg, epoch)
                       THEN StepScheduler(lr_scheduler) ELSE lr_scheduler
    /\ IF ~save_model
       THEN /\ pc' = "eval" /\ error' = ""
            /\ UNCHANGED <<weights_files, checkpoint_files>>
       ELSE /\ weights_files' = weights_files \cup {epoch + 1}
            /\ IF SaveCheckpointRaises(lr_scheduler')
               THEN /\ Raise("AttributeError: lr_scheduler is None")
                    /\ UNCHANGED checkpoint_files
               ELSE /\ pc' = "eval" /\ error' = ""
                    /\ checkpoint_files' = checkpoint_files \cup
                          {CheckpointFile(epoch + 1, arg, global_step, optimizer,
                                          lr_scheduler')}
    /\ UNCHANGED <<arg, data_loader, optimizer, epoch, save_model, batch_idx, split,
                   grads, global_step, best_acc, best_acc_epoch, best_loss_val,
                   counter_early_stopping, fwd_passes, opt_steps, eval_passes,
                   lossHist, gs_entry, trained>>
    /\ UNCHANGED <<accuracy, zero_grads, micro_batches, score_files, report_files>>
    /\ UNCHANGED loadVars
    /\ UNCHANGED evalVars

\* start(): self.eval(epoch, ...) of the loop
Eval ==
    /\ pc = "eval"
    /\ \E loss \in LossValues, acc \in AccValues : evalBody(epoch, loss, acc, {})
    /\ pc' = "check"
    /\ UNCHANGED <<arg, data_loader, error, optimizer, epoch, save_model, batch_idx,
                   split, grads, global_step, weights_files, checkpoint_files,
                   fwd_passes, opt_steps, gs_entry, trained, zero_grads,
                   micro_batches>>
    /\ UNCHANGED loadVars
    /\ UNCHANGED evalVars

\* start(): the early-stopping test, then the next iteration of the for statement
EarlyStoppingCheck ==
    /\ pc = "check"
    /\ IF EarlyStop(arg, counter_early_stopping)
       THEN /\ pc' = "done"
            /\ UNCHANGED <<epoch, save_model, trained>>
       ELSE EnterEpoch(epoch + 1)
    /\ batch_idx' = 0
    /\ gs_entry' = global_step
    /\ UNCHANGED <<arg, data_loader, error, optimizer, lr_scheduler, split, grads,
                   global_step, best_acc, best_acc_epoch, best_loss_val,
                   counter_early_stopping, weights_files, checkpoint_files,
                   fwd_passes, opt_steps, eval_passes, lossHist>>
    /\ UNCHANGED <<accuracy, zero_grads, micro_batches, score_files, report_files>>
    /\ UNCHANGED loadVars
    /\ UNCHANGED evalVars

RunNext ==
    \/ ProcessorInit
    \/ StartTrain
    \/ StartTest
    \/ TrainFetch
    \/ TrainMicroBatch
    \/ TrainOptimizerStep
    \/ TrainEnd
    \/ Eval
    \/ EarlyStoppingCheck

LoadIdle ==
    /\ live_model = <<>>
    /\ snapshot = <<>>
    /\ ignore_weights = {}
    /\ load_pc = "idle"
    /\ load_log = {}
    /\ saved_model = <<>>

EvalIdle ==
    /\ tta = <<>>
    /\ use_tta = FALSE
    /\ loader_name = <<>>
    /\ lst_score = <<>>
    /\ score = <<>>
    /\ f_r = <<>>
    /\ f_w = <<>>
    /\ eval_pc = "idle"

Init == RunInit /\ LoadIdle /\ EvalIdle

Next == RunNext

Spec == Init /\ [][Next]_vars

----------------------------------------------------------------------------
(* load_model: restoring weights from a snapshot.  A parameter name is a    *)
(* sequence of pieces, the piece "module." standing for that substring:     *)
(* <<"module.", "w">> is "module.w" and <<"sub", "module.", "w">> is        *)
(* "submodule.w".  A tensor is its shape and its content.                   *)

Tensor(s, v) == [shape |-> s, val |-> v]

NameW == <<"w">>
NameB == <<"b">>
NameSubW == <<"sub", "module.", "w">>

\* names a weights file can hold: plain, wrapped by DataParallel, nested
SnapshotNames ==
    {NameW, NameB, NameSubW, <<"module.">> \o NameW, <<"module.">> \o NameB}

\* shape 1 fits the model, shape 2 does not; contents 1 and 2 differ from the initial 0
SnapshotTensors == {Tensor(s, v) : s \in {1, 2}, v \in {1, 2}}

\* the freshly built model: every parameter of shape 1 holding its initial content 0
FreshModel(names) == [k \in names |-> Tensor(1, 0)]

LiveModels == {FreshModel({NameW, NameB}), FreshModel({NameW, NameSubW})}

\* the items of a weights file, in order, no name twice
RECURSIVE SnapshotsOfLen(_)
SnapshotsOfLen(n) ==
    IF n = 0 THEN {<<>>}
    ELSE { Append(sq, <<k, t>>) :
             sq \in SnapshotsOfLen(n - 1), k \in SnapshotNames, t \in SnapshotTensors }

NoRepeat(sq) == \A i, j \in 1..Len(sq) : sq[i][1] = sq[j][1] => i = j

Snapshots ==
    { sq \in UNION { SnapshotsOfLen(n) : n \in 0..MaxSnapLen } : NoRepeat(sq) }

SnapNames(sq) == { sq[i][1] : i \in 1..Len(sq) }

WeightsPaths == {"weights-2.pt", "best.pt"}

\* int(self.arg.weights[:-3].split('-')[-1]), 0 when that raises
ParseGlobalStep(path) ==
    CASE path = "weights-1.pt" -> 1
      [] path = "weights-2.pt" -> 2
      [] OTHER -> 0

\* k.split('module.')[-1]: what follows the last "module." of the name
Normalize(k) ==
    LET at == { i \in 1..Len(k) : k[i] = "module." }
    IN  IF at = {} THEN k
        ELSE SubSeq(k, (CHOOSE i \in at : \A j \in at : j <= i) + 1, Len(k))

\* OrderedDict([[k.split('module.')[-1], v] ...]): a later item replaces an earlier
\* one of the same normalised name
NormalizedWeights(sq) ==
    [ n \in { Normalize(sq[i][1]) : i \in 1..Len(sq) } |->
        LET at == { i \in 1..Len(sq) : Normalize(sq[i][1]) = n }
        IN  sq[CHOOSE i \in at : \A j \in at : j <= i][2] ]

\* for w in self.arg.ignore_weights: weights.pop(w, None)
PopIgnored(weights, ign) == [ n \in (DOMAIN weights) \ ign |-> weights[n] ]

\* state.update(weights)
DictUpdate(state, weights) ==
    [ n \in (DOMAIN state) \cup (DOMAIN weights) |->
        IF n \in DOMAIN weights THEN weights[n] ELSE state[n] ]

\* Module.load_state_dict(sd, strict): every entry of the module's own names with the
\* module's shape is copied in place; a size mismatch is an error whatever strict is,
\* a missing or an unexpected name only when strict; any error raises after the copies
LoadStateDict(model, sd, strict) ==
    LET mismatch   == { n \in (DOMAIN model) \cap (DOMAIN sd) :
                          sd[n].shape # model[n].shape }
        missing    == (DOMAIN model) \ (DOMAIN sd)
        unexpected == (DOMAIN sd) \ (DOMAIN model)
    IN  [model  |-> [ n \in DOMAIN model |->
                        IF n \in (DOMAIN sd) \ mismatch THEN sd[n] ELSE model[n] ],
         raised |-> \/ mismatch # {}
                    \/ (strict /\ (missing # {} \/ unexpected # {}))]

\* the names load_model logs under 'Cannot find these weights:'
MissingKeys(model, weights) == (DOMAIN model) \ (DOMAIN weights)

LoadInit ==
    /\ arg \in { [BaseArg EXCEPT !.weights = w] : w \in WeightsPaths }
    /\ data_loader = [train |-> 1]
    /\ RunFields
    /\ live_model \in LiveModels
    /\ snapshot \in Snapshots
    /\ ignore_weights \in {{}, {NameB}}
    /\ load_pc = "ready"
    /\ load_log = {}
    /\ saved_model = <<>>
    /\ EvalIdle

\* the order in which the modules of a model register their parameters
NameOrder == <<NameW, NameB, NameSubW>>

\* self.model.state_dict().items(); the names of a model wrapped in nn.DataParallel
\* (more than one device) carry the prefix 'module.'
StateDictItems(model, wrapped) ==
    LET names == SelectSeq(NameOrder, LAMBDA k : k \in DOMAIN model)
    IN  [ i \in 1..Len(names) |->
            <<IF wrapped THEN <<"module.">> \o names[i] ELSE names[i],
              model[names[i]]>> ]

\* OrderedDict: an item of a name already present replaces its tensor in place
DictPut(items, k, v) ==
    IF \E i \in 1..Len(items) : items[i][1] = k
    THEN [ i \in 1..Len(items) |-> IF items[i][1] = k THEN <<k, v>> ELSE items[i] ]
    ELSE Append(items, <<k, v>>)

\* save_weights: OrderedDict([[k.split('module.')[-1], v.cpu()] for k, v in items])
RECURSIVE SavedWeights(_)
SavedWeights(items) ==
    IF items = <<>> THEN <<>>
    ELSE LET last == items[Len(items)]
         IN  DictPut(SavedWeights(SubSeq(items, 1, Len(items) - 1)),
                     Normalize(last[1]), last[2])

\* load_model from `if self.arg.weights:` on, on the model just built: run on the
\* weights file given, and run again by a later run on the file save_weights wrote
load_model ==
    /\ load_pc \in {"ready", "saved"}
    /\ arg.weights # "None"
    /\ global_step' = <<ParseGlobalStep(arg.weights), 1>>
    /\ LET model   == FreshModel(DOMAIN live_model)
           weights == PopIgnored(NormalizedWeights(snapshot), ignore_weights)
           first   == LoadStateDict(model, weights, FALSE)
           second  == LoadStateDict(first.model,
                                    DictUpdate(first.model, weights), TRUE)
           loaded  == IF load_pc = "ready" THEN "loaded" ELSE "reloaded"
       IN  IF ~first.raised
           THEN /\ live_model' = first.model
                /\ load_log' = {}
                /\ load_pc' = loaded
           ELSE /\ live_model' = second.model
                /\ load_log' = MissingKeys(first.model, weights)
                /\ load_pc' = IF second.raised THEN "raised" ELSE loaded
    /\ UNCHANGED <<arg, data_loader, pc, error, optimizer, lr_scheduler, epoch,
                   save_model, batch_idx, split, grads, best_acc, best_acc_epoch,
                   best_loss_val, counter_early_stopping, weights_files,
                   checkpoint_files, fwd_passes, opt_steps, eval_passes, lossHist,
                   gs_entry, trained>>
    /\ UNCHANGED <<accuracy, zero_grads, micro_batches, score_files, report_files>>
    /\ UNCHANGED <<snapshot, ignore_weights, saved_model>>
    /\ UNCHANGED evalVars

\* save_weights of the model a run has loaded: the file a later run is given
save_weights ==
    /\ load_pc = "loaded"
    /\ \E wrapped \in BOOLEAN :
          snapshot' = SavedWeights(StateDictItems(live_model, wrapped))
    /\ saved_model' = live_model
    /\ load_pc' = "saved"
    /\ UNCHANGED runVars
    /\ UNCHANGED <<live_model, ignore_weights, load_log>>
    /\ UNCHANGED evalVars

LoadNext ==
    \/ load_model
    \/ save_weights

SpecLoad == LoadInit /\ [][LoadNext]_vars

----------------------------------------------------------------------------
(* eval() view by view: the test-phase run main() -> Processor -> start().  *)
(* A view's loader is the sequence of the model's outputs for its samples,  *)
(* in the order of the dataset (shuffle=False); an output is the vector of  *)
(* the class scores <<score of class 0, score of class 1>>; the sample at   *)
(* position i has index i - 1 and the label Label(i - 1).                   *)

Classes == {0, 1}

\* the model's outputs: class 0 ahead, class 1 ahead; no sum of up to three
\* of them is a tie
OutputVectors == {<<1, 0>>, <<0, 3>>}

\* the label of the sample of index i in the test set
Label(i) == i % 2

RECURSIVE ViewLoadersOfLen(_)
ViewLoadersOfLen(n) ==
    IF n = 0 THEN {<<>>}
    ELSE { Append(v, o) : v \in ViewLoadersOfLen(n - 1), o \in OutputVectors }

\* the loaders a view can have: one to MaxSamples samples
ViewLoaders == UNION { ViewLoadersOfLen(n) : n \in 1..MaxSamples }

RECURSIVE TtaOfLen(_)
TtaOfLen(n) ==
    IF n = 0 THEN {<<>>}
    ELSE { Append(t, v) : t \in TtaOfLen(n - 1), v \in ViewLoaders }

\* arg.tta: one to MaxViews configured views
TtaConfigs == UNION { TtaOfLen(n) : n \in 1..MaxViews }

\* main(): if arg.use_tta == False: arg.tta = [arg.tta[0]]
MainTta(t, use) == IF use = FALSE THEN <<t[1]>> ELSE t

\* get_lst_name_test_tta: 'test_tta_' + str(idx) for every entry of arg.tta, as idx
LstNameTestTta(t) == [ i \in 1..Len(t) |-> i - 1 ]

\* _, predict_label = torch.max(output.data, 1)
Predict(out) == CHOOSE c \in Classes : \A d \in Classes : out[d + 1] <= out[c + 1]

\* the lines eval() writes to the result file for one view: predicted, true
ResultLines(data) == [ i \in 1..Len(data) |-> <<Predict(data[i]), Label(i - 1)>> ]

RECURSIVE WrongLinesFrom(_, _)
WrongLinesFrom(data, i) ==
    IF i > Len(data) THEN <<>>
    ELSE (IF Predict(data[i]) # Label(i - 1)
          THEN << <<i - 1, Predict(data[i]), Label(i - 1)>> >> ELSE <<>>)
         \o WrongLinesFrom(data, i + 1)

\* the lines eval() writes to the wrong-samples file for one view: index, predicted, true
WrongLines(data) == WrongLinesFrom(data, 1)

\* score += lst_score[i] on a score of n rows: numpy adds a matrix of n rows row by
\* row, repeats the row of a matrix of one row, and raises ValueError otherwise
Broadcastable(n, m) == Len(m) = n \/ Len(m) = 1

\* the row numpy adds to row i of the score
RowOf(m, i) == IF Len(m) = 1 THEN m[1] ELSE m[i]

\* mutant: the counter of the fusion loop started at 1
FuseIter_FromOne(lst) == Len(lst) + 1

\* eval(): iter after the fusion loop, the divisor of score /= iter
FuseIter(lst) == Len(lst)

RECURSIVE SumRows(_, _, _, _)
SumRows(lst, v, i, c) ==
    IF v = 0 THEN 0 ELSE SumRows(lst, v - 1, i, c) + RowOf(lst[v], i)[c]

\* eval(): score = zeros(shape of lst_score[0]); score += every lst_score[i];
\* score /= iter.  An entry is the exact fraction <<sum, iter>>
Fuse(lst) ==
    [ i \in 1..Len(lst[1]) |->
        [ c \in 1..Len(lst[1][1]) |-> <<SumRows(lst, Len(lst), i, c), FuseIter(lst)>> ] ]

\* the fusion loop raises on a view it cannot add
FuseRaises(lst) == \E v \in 1..Len(lst) : ~Broadcastable(Len(lst[1]), lst[v])

\* Feeder.top_k(score, 1) of the view of n samples, in sixths: the share of its
\* labels that are the highest-scoring class of their row
TopK(sc, n) ==
    (6 * Cardinality({ i \in 1..n :
            \A d \in Classes : sc[i][d + 1][1] <= sc[i][Label(i - 1) + 1][1] })) \div n

EvalInit ==
    /\ arg \in { [BaseArg EXCEPT !.phase = "test", !.weights = "weights-2.pt",
                                 !.eval_start = ev, !.debug = d,
                                 !.lr_scheduler = ls] :
                    ev \in 1..MaxEvalStart, d \in BOOLEAN,
                    ls \in {"MultiStepLR", "ReduceLROnPlateau"} }
    /\ data_loader = [train |-> 1]
    /\ RunFields
    /\ LoadIdle
    /\ tta \in TtaConfigs
    /\ use_tta \in BOOLEAN
    /\ loader_name = <<>>
    /\ lst_score = <<>>
    /\ score = <<>>
    /\ f_r = <<>>
    /\ f_w = <<>>
    /\ eval_pc = "main"

\* main(): the views kept, then Processor(arg)
main ==
    /\ eval_pc = "main"
    /\ tta' = MainTta(tta, use_tta)
    /\ loader_name' = LstNameTestTta(tta')
    /\ optimizer' = load_optimizer(arg)
    /\ lr_scheduler' = load_lr_scheduler(arg)
    /\ pc' = "constructed"
    /\ eval_pc' = "start"
    /\ UNCHANGED <<arg, data_loader, error, epoch, save_model, batch_idx, split, grads,
                   global_step, best_acc, best_acc_epoch, best_loss_val,
                   counter_early_stopping, weights_files, checkpoint_files,
                   fwd_passes, opt_steps, eval_passes, lossHist, gs_entry, trained>>
    /\ UNCHANGED <<accuracy, zero_grads, micro_batches, score_files, report_files>>
    /\ UNCHANGED <<use_tta, lst_score, score, f_r, f_w>>
    /\ UNCHANGED loadVars

\* start(), phase 'test', and eval(epoch=0, ...) up to the opening of the files
EvalBegin ==
    /\ eval_pc = "start"
    /\ pc = "constructed"
    /\ arg.phase = "test"
    /\ arg.weights # "None"
    /\ IF EvalSkipped(0, arg)
       THEN /\ eval_pc' = "returned"
            /\ pc' = "done"
            /\ UNCHANGED <<report_files, eval_passes>>
       ELSE /\ eval_pc' = "views"
            /\ pc' = "eval"
            /\ report_files' = report_files \cup ReportFiles(arg)
            /\ eval_passes' = eval_passes + 1
    /\ lst_score' = <<>>
    /\ UNCHANGED <<arg, data_loader, error, optimizer, lr_scheduler, epoch, save_model,
                   batch_idx, split, grads, global_step, best_acc, best_acc_epoch,
                   best_loss_val, counter_early_stopping, weights_files,
                   checkpoint_files, fwd_passes, opt_steps, lossHist, gs_entry,
                   trained>>
    /\ UNCHANGED <<accuracy, zero_grads, micro_batches, score_files>>
    /\ UNCHANGED <<tta, use_tta, loader_name, score, f_r, f_w>>
    /\ UNCHANGED loadVars

\* eval(): one iteration of `for ln_idx, ln in enumerate(loader_name)`
EvalView ==
    /\ eval_pc = "views"
    /\ Len(lst_score) < Len(loader_name)
    /\ LET ln   == loader_name[Len(lst_score) + 1]
           data == tta[ln + 1]
       IN  /\ lst_score' = Append(lst_score, data)
           /\ f_r' = IF "right-samples.txt" \in report_files
                      THEN f_r \o ResultLines(data) ELSE f_r
           /\ f_w' = IF "wrong-samples.txt" \in report_files
                      THEN f_w \o WrongLines(data) ELSE f_w
    /\ UNCHANGED runVars
    /\ UNCHANGED <<tta, use_tta, loader_name, score, eval_pc>>
    /\ UNCHANGED loadVars

\* eval(): after the views, the fusion, the accuracy and the updates of the best
\* values, the plateau schedule and the score file
EvalFuse ==
    /\ eval_pc = "views"
    /\ Len(lst_score) = Len(loader_name)
    /\ IF FuseRaises(lst_score)
       THEN /\ Raise("ValueError: operands could not be broadcast together")
            /\ eval_pc' = "raised"
            /\ UNCHANGED <<score, accuracy, best_acc, best_acc_epoch, best_loss_val,
                           counter_early_stopping, lr_scheduler, lossHist, score_files>>
       ELSE /\ score' = Fuse(lst_score)
            /\ pc' = "done"
            /\ error' = ""
            /\ eval_pc' = "done"
            /\ \E loss \in LossValues :
                 LET acc == TopK(Fuse(lst_score), Len(lst_score[Len(lst_score)]))
                 IN  /\ accuracy' = acc
                     /\ best_acc' = IF AccImproves(acc, best_acc) THEN acc ELSE best_acc
                     /\ best_acc_epoch' = IF AccImproves(acc, best_acc)
                                          THEN 0 + 1 ELSE best_acc_epoch
                     /\ counter_early_stopping' =
                            NewCounter(loss, best_loss_val, counter_early_stopping)
                     /\ best_loss_val' = NewBestLoss(loss, best_loss_val)
                     /\ lossHist' = Append(lossHist, loss)
            /\ lr_scheduler' = IF StepsInEval(lr_scheduler, arg)
                               THEN StepScheduler(lr_scheduler) ELSE lr_scheduler
            /\ score_files' = IF arg.save_score THEN score_files \cup {0 + 1}
                              ELSE score_files
    /\ UNCHANGED <<arg, data_loader, optimizer, epoch, save_model, batch_idx, split,
                   grads, global_step, weights_files, checkpoint_files, fwd_passes,
                   opt_steps, eval_passes, gs_entry, trained, zero_grads,
                   micro_batches, report_files>>
    /\ UNCHANGED <<tta, use_tta, loader_name, lst_score, f_r, f_w>>
    /\ UNCHANGED loadVars

EvalNext ==
    \/ main
    \/ EvalBegin
    \/ EvalView
    \/ EvalFuse

SpecEval == EvalInit /\ [][EvalNext]_vars

----------------------------------------------------------------------------
(* Properties.                                                             *)

AssertionMessage ==
    "AssertionError: Real batch size should be a factor of arg.batch_size!"

\* train(e) has returned
TrainReturned(e) ==
    /\ e \in trained
    /\ ~(e = epoch /\ pc \in {"train", "micro", "aborted"})

\* an evaluation pass has just been made by the step
Evaluated == Len(lossHist') = Len(lossHist) + 1

\* C1: with early_stopping = 2 and the fused validation losses 1.0, 1.2, 1.3 of
\* the first three epochs, the loop stops right after the third epoch: a fourth
\* epoch is never trained.
C1_StopsAfterThird ==
    ( /\ arg.phase = "train"
      /\ arg.early_stopping = 2
      /\ arg.eval_start = 1
      /\ Len(lossHist) >= 3
      /\ SubSeq(lossHist, 1, 3) = <<10, 12, 13>> )
    => Cardinality(trained) <= 3

\* C2 as stated: at an evaluation with a best loss already set, the counter is reset
\* to 0 if the loss is lower than the best and otherwise incremented by exactly 1
\* with the best loss unchanged; the first evaluation adopts its loss, counter 0.
C2_IncrementsUnlessLower ==
    [][ Evaluated =>
          LET loss == lossHist'[Len(lossHist')]
          IN  IF best_loss_val = -1
              THEN best_loss_val' = loss /\ counter_early_stopping' = 0
              ELSE IF loss < best_loss_val
              THEN best_loss_val' = loss /\ counter_early_stopping' = 0
              ELSE /\ counter_early_stopping' = counter_early_stopping + 1
                   /\ best_loss_val' = best_loss_val ]_vars

\* C2 amended: at an evaluation with a best loss already set, the counter is
\* incremented by exactly 1, the best loss unchanged, if the loss is strictly greater
\* than the best; a loss lower than or equal to the best resets the counter to 0 and
\* becomes the best; the first evaluation adopts its loss, counter 0.
C2_IncrementsOnlyWhenGreater ==
    [][ Evaluated =>
          LET loss == lossHist'[Len(lossHist')]
          IN  IF best_loss_val = -1
              THEN best_loss_val' = loss /\ counter_early_stopping' = 0
              ELSE IF loss > best_loss_val
              THEN /\ counter_early_stopping' = counter_early_stopping + 1
                   /\ best_loss_val' = best_loss_val
              ELSE best_loss_val' = loss /\ counter_early_stopping' = 0 ]_vars

\* C2 witness: after 1.0 then a worse loss, a loss equal to the best has been
\* evaluated and the counter is back at 0
C2_Witness ==
    /\ Len(lossHist) = 3
    /\ lossHist[2] > lossHist[1]
    /\ lossHist[3] = lossHist[1]
    /\ best_loss_val = lossHist[1]
    /\ counter_early_stopping = 0

C4_SavedIffInterval ==
    \A e \in 0..MaxEpoch :
        LET due == /\ TrainReturned(e)
                   /\ ((e + 1) % arg.save_interval = 0 \/ e + 1 = arg.num_epoch)
        IN  /\ (e + 1 \in weights_files) <=> due
            /\ (\E f \in checkpoint_files : f.epoch = e + 1) <=> due

\* C5: with a checkpoint supplied, the first epoch trained is the one stored in
\* the checkpoint, and after construction the optimizer and scheduler states are
\* the stored ones.
C5_ResumesAtStoredEpoch ==
    ( arg.phase = "train" /\ arg.checkpoint # "None" ) =>
        LET ckpt == TorchLoadCheckpoint(arg.checkpoint)
        IN  /\ \A e \in trained : e >= ckpt.epoch
            /\ trained # {} => ckpt.epoch \in trained
            /\ pc = "constructed" =>
                 /\ optimizer.state = ckpt.optimizer_states
                 /\ lr_scheduler.last_epoch = ckpt.lr_scheduler_states

\* the entries of the snapshot the live model can take: its own names, its shapes
Compatible(model, sq) ==
    { i \in 1..Len(sq) :
        sq[i][1] \in DOMAIN model /\ sq[i][2].shape = model[sq[i][1]].shape }

\* C6: a snapshot holding an entry of a shape the model cannot take is loaded
\* without raising: the entries the model can take are applied, the other
\* parameters keep their content, and every parameter of the model absent from the
\* snapshot is logged.
C6_PartialLoadNeverRaises ==
    ( /\ load_pc \in {"loaded", "raised"}
      /\ ignore_weights = {}
      /\ SnapNames(snapshot) \subseteq DOMAIN live_model
      /\ Compatible(live_model, snapshot) # 1..Len(snapshot) )
    => /\ load_pc = "loaded"
       /\ \A i \in Compatible(live_model, snapshot) :
              live_model[snapshot[i][1]] = snapshot[i][2]
       /\ \A k \in (DOMAIN live_model) \ SnapNames(snapshot) :
              live_model[k] = Tensor(1, 0)
       /\ load_log = (DOMAIN live_model) \ SnapNames(snapshot)

\* C7: after loading a snapshot whose names are a strict subset of the model's,
\* every parameter named in the snapshot holds the snapshot's tensor and every
\* other parameter holds what it held before.
C7_SubsetRestore ==
    ( /\ load_pc = "loaded"
      /\ ignore_weights = {}
      /\ SnapNames(snapshot) \subseteq DOMAIN live_model
      /\ SnapNames(snapshot) # DOMAIN live_model )
    => /\ \A i \in 1..Len(snapshot) : live_model[snapshot[i][1]] = snapshot[i][2]
       /\ \A k \in (DOMAIN live_model) \ SnapNames(snapshot) :
              live_model[k] = Tensor(1, 0)

C9_BadConfigurationAborts ==
    ( \/ arg.optimizer \notin {"SGD", "Adam"}
      \/ arg.lr_scheduler \notin {"MultiStepLR", "ReduceLROnPlateau", "CosineAnnealingLR"}
      \/ (arg.phase = "test" /\ arg.weights = "None") )
    => /\ fwd_passes = 0
       /\ opt_steps = 0
       /\ eval_passes = 0
       /\ weights_files = {}
       /\ checkpoint_files = {}
       /\ pc # "done"

\* C10: a test-phase run with weights supplied ends having made exactly one
\* evaluation pass, no training step, global_step unchanged and no file written.
C10_TestEvaluatesOnce ==
    ( arg.phase = "test" /\ arg.weights # "None" /\ pc = "done" ) =>
        /\ eval_passes = 1
        /\ trained = {}
        /\ fwd_passes = 0
        /\ opt_steps = 0
        /\ global_step = <<0, 1>>
        /\ weights_files = {}
        /\ checkpoint_files = {}

\* C11: best_acc never decreases; best_acc and best_acc_epoch change only at an
\* evaluation whose fused top-1 accuracy is strictly greater than the previous
\* best_acc, and are then that accuracy and that epoch's number epoch + 1, whatever
\* the evaluation does to best_loss_val and counter_early_stopping.
C11_BestAccOnlyImproves ==
    [][ /\ best_acc' >= best_acc
        /\ IF Evaluated /\ accuracy' > best_acc
           THEN best_acc' = accuracy' /\ best_acc_epoch' = epoch + 1
           ELSE best_acc' = best_acc /\ best_acc_epoch' = best_acc_epoch ]_vars

\* C11 witness: the second epoch improved the accuracy while its loss was worse
C11_Witness ==
    /\ Len(lossHist) = 2
    /\ best_acc_epoch = 2
    /\ best_acc = accuracy
    /\ best_acc = 2
    /\ counter_early_stopping = 1

\* the views eval() went through all have the sample count of the first one
EqualCounts == \A v \in 1..Len(tta) : Len(tta[v]) = Len(tta[1])

\* the sum over the views of the score of class c - 1 for the sample at position i
RECURSIVE SumViews(_, _, _)
SumViews(t, i, c) == IF t = <<>> THEN 0 ELSE Head(t)[i][c] + SumViews(Tail(t), i, c)

\* C12: for one or more views of equal sample counts, every entry of the fused
\* score matrix is the sum of the views' entries divided by the number of views;
\* fusing identical views gives the view's matrix back; with TTA disabled exactly
\* one view is evaluated and the fused matrix is that view's matrix.
C12_FusedIsMean ==
    ( eval_pc = "done" /\ EqualCounts ) =>
        /\ Len(lst_score) = Len(tta)
        /\ Len(score) = Len(tta[1])
        /\ \A i \in 1..Len(score) : \A c \in 1..2 :
              /\ score[i][c][2] = Len(tta)
              /\ score[i][c][1] = SumViews(tta, i, c)
              /\ (\A v \in 1..Len(tta) : tta[v] = tta[1])
                    => score[i][c][1] = score[i][c][2] * tta[1][i][c]
              /\ ~use_tta => /\ Len(lst_score) = 1
                             /\ score[i][c] = <<tta[1][i][c], 1>>

\* C13: with batch_size a multiple of forward_batch_size, every macro-batch fetched
\* has its gradients zeroed once, at the fetch; the optimizer steps only after
\* exactly batch_size / forward_batch_size forward/backward passes since then, over
\* micro-batches that start at 0, follow one another without gap or overlap, hold
\* forward_batch_size samples each and end at batch_size; it steps once per
\* macro-batch and never between two micro-batches.
C13_OneStepPerMacroBatch ==
    /\ [][ arg.batch_size % arg.forward_batch_size = 0 =>
             /\ (pc = "train" /\ pc' = "micro") =>
                   /\ zero_grads' = zero_grads + 1
                   /\ grads' = 0
                   /\ micro_batches' = <<>>
                   /\ opt_steps' = opt_steps
             /\ (pc = "micro" /\ pc' = "micro") =>
                   /\ zero_grads' = zero_grads
                   /\ opt_steps' = opt_steps
                   /\ grads' = grads + 1
                   /\ Len(micro_batches') = Len(micro_batches) + 1
             /\ opt_steps' # opt_steps =>
                   /\ opt_steps' = opt_steps + 1
                   /\ zero_grads' = zero_grads
                   /\ zero_grads = opt_steps + 1
                   /\ grads * arg.forward_batch_size = arg.batch_size
                   /\ Len(micro_batches) = grads
                   /\ micro_batches[1][1] = 0
                   /\ micro_batches[Len(micro_batches)][2] = arg.batch_size
                   /\ \A k \in 1..Len(micro_batches) :
                         /\ micro_batches[k][2] =
                               micro_batches[k][1] + arg.forward_batch_size
                         /\ k > 1 => micro_batches[k][1] = micro_batches[k - 1][2]
             /\ zero_grads' # zero_grads => (pc = "train" /\ pc' = "micro") ]_vars
    /\ []( arg.batch_size % arg.forward_batch_size = 0 =>
             /\ opt_steps <= zero_grads
             /\ zero_grads <= opt_steps + 1
             /\ pc \in {"eval", "check", "done"} => opt_steps = zero_grads )

\* C13 witness: a macro-batch of four samples has been stepped after two
\* micro-batches of two samples
C13_Witness ==
    /\ arg.batch_size = 4
    /\ arg.forward_batch_size = 2
    /\ opt_steps = 1
    /\ micro_batches = << <<0, 2>>, <<2, 4>> >>
    /\ pc = "train"

\* C14: the fetch of a macro-batch advances global_step by one; a micro-batch, the
\* optimizer step, the end of train() and eval() leave it unchanged; when train()
\* returns, global_step is its value at the entry of train() plus the number of
\* macro-batches of the training loader.
C14_StepPerMacroBatch ==
    [][ /\ (pc = "train" /\ pc' = "micro") =>
              /\ global_step'[2] = global_step[2]
              /\ global_step'[1] = global_step[1] + global_step[2]
        /\ (pc \in {"micro", "eval"} \/ (pc = "train" /\ batch_idx = data_loader.train))
              => global_step' = global_step
        /\ (pc = "train" /\ pc' = "eval") =>
              /\ global_step[2] = gs_entry[2]
              /\ global_step[1] = gs_entry[1] + data_loader.train * gs_entry[2] ]_vars

\* C14 witness: train() has returned after two macro-batches of two micro-batches
C14_Witness ==
    /\ pc = "eval"
    /\ data_loader.train = 2
    /\ fwd_passes = 4
    /\ opt_steps = 2
    /\ global_step[1] = gs_entry[1] + 2 * gs_entry[2]

\* eval(e, ...) of the loop of start() has returned
EvalReturned(e) ==
    /\ e \in trained
    /\ (e < epoch \/ pc \in {"check", "done"})

\* C15: with a supported schedule, every weights file and every checkpoint
\* labelled e + 1 is written after the evaluation of epoch e has finished, and
\* after the optimizer steps of that epoch.
C15_SavedAfterEvaluation ==
    arg.lr_scheduler \in SupportedSchedulers =>
        \A n \in weights_files \cup { f.epoch : f \in checkpoint_files } :
            /\ EvalReturned(n - 1)
            /\ opt_steps >= data_loader.train

\* C16: an evaluation over views of different sample counts ends with an error:
\* no fused score is produced and best_acc, best_acc_epoch, best_loss_val and
\* counter_early_stopping keep the values of the construction.
C16_MismatchAborts ==
    ( eval_pc \in {"done", "raised"} /\ ~EqualCounts ) =>
        /\ eval_pc = "raised"
        /\ error # ""
        /\ score = <<>>
        /\ best_acc = 0
        /\ best_acc_epoch = 0
        /\ best_loss_val = -1
        /\ counter_early_stopping = 0

\* C17: after construction a MultiStepLR or CosineAnnealingLR schedule is stepped
\* by exactly one, at the end of train(e), if e >= epoch_warn, and by no other step
\* of the run, eval() included; a ReduceLROnPlateau schedule is stepped by exactly
\* one at every evaluation that is made and by no other step, train() included.
C17_ScheduleSteps ==
    [][ ( /\ arg.lr_scheduler \in
                {"MultiStepLR", "CosineAnnealingLR", "ReduceLROnPlateau"}
          /\ pc # "new" ) =>
          LET d == lr_scheduler'.last_epoch - lr_scheduler.last_epoch
              trainEnds == pc = "train" /\ batch_idx = data_loader.train
          IN  /\ lr_scheduler'.kind = arg.lr_scheduler
              /\ IF arg.lr_scheduler = "ReduceLROnPlateau"
                 THEN d = IF Evaluated THEN 1 ELSE 0
                 ELSE d = IF trainEnds /\ epoch >= arg.epoch_warn THEN 1 ELSE 0 ]_vars

\* C17 witness: two epochs with a warm-up of one epoch, the schedule stepped once
C17_Witness ==
    /\ arg.lr_scheduler = "CosineAnnealingLR"
    /\ arg.epoch_warn = 1
    /\ pc = "done"
    /\ trained = {0, 1}
    /\ eval_passes = 2
    /\ lr_scheduler.last_epoch = 1

\* C18: a call of eval() with epoch + 1 < eval_start, in the loop of start() or in
\* the test phase, makes no evaluation pass and leaves best_acc, best_acc_epoch,
\* best_loss_val, counter_early_stopping, the scheduler, the report files and the
\* score files unchanged.
C18_SkippedEvalIsNoOp ==
    [][ ( /\ \/ pc = "eval"
             \/ pc = "constructed" /\ arg.phase = "test" /\ arg.weights # "None"
          /\ epoch + 1 < arg.eval_start ) =>
          /\ eval_passes' = eval_passes
          /\ lossHist' = lossHist
          /\ accuracy' = accuracy
          /\ best_acc' = best_acc
          /\ best_acc_epoch' = best_acc_epoch
          /\ best_loss_val' = best_loss_val
          /\ counter_early_stopping' = counter_early_stopping
          /\ lr_scheduler' = lr_scheduler
          /\ report_files' = report_files
          /\ score_files' = score_files ]_vars

\* C18 witness: with score saving on, the evaluation of the first epoch was skipped
\* and the one of the second epoch was made
C18_Witness ==
    /\ arg.phase = "train"
    /\ arg.eval_start = 2
    /\ arg.save_score
    /\ pc = "done"
    /\ trained = {0, 1}
    /\ eval_passes = 1
    /\ score_files = {2}

\* the class the fused score gives the sample at position i
FusedClass(i) ==
    CHOOSE c \in Classes : \A d \in Classes : score[i][d + 1][1] <= score[i][c + 1][1]

\* C19: an evaluation that writes the reports, over any number of views of equal
\* counts, leaves one line per sample in the result file, and in the wrong-samples
\* file one line for each sample whose predicted class is not its label and none
\* for the others.
C19_OneLinePerSample ==
    ( eval_pc = "done" /\ EqualCounts /\ report_files # {} ) =>
        /\ Len(f_r) = Len(tta[1])
        /\ \A i \in 1..Len(tta[1]) :
              Cardinality({ k \in 1..Len(f_w) : f_w[k][1] = i - 1 })
                 = IF FusedClass(i) # Label(i - 1) THEN 1 ELSE 0

\* C20: the normalisation of a parameter name takes off a leading 'module.' and
\* nothing else, normalising twice is normalising once, no two parameters of a
\* model share a normalised name, and a model saved by save_weights and loaded by
\* load_model has every parameter holding the tensor it held when saved.
C20_NormalisationRoundTrip ==
    ( load_pc = "reloaded" /\ ignore_weights = {} ) =>
        /\ \A k \in DOMAIN saved_model :
              /\ Normalize(k) = IF k[1] = "module." THEN Tail(k) ELSE k
              /\ Normalize(Normalize(k)) = Normalize(k)
        /\ \A k1, k2 \in DOMAIN saved_model :
              k1 # k2 => Normalize(k1) # Normalize(k2)
        /\ \A k \in DOMAIN saved_model : live_model[k] = saved_model[k]

\* C21: when the loop of start() begins at start_epoch, global_step is start_epoch
\* times the number of macro-batches of the training loader, and when train(e) has
\* returned it is e + 1 times that number, whatever the start epoch.
C21_StepCountsWholeEpochs ==
    arg.phase = "train" =>
        /\ ( pc = "train" /\ epoch = arg.start_epoch /\ batch_idx = 0 ) =>
              global_step[1] = arg.start_epoch * data_loader.train * global_step[2]
        /\ pc \in {"eval", "check"} =>
              /\ global_step[1] = (epoch + 1) * data_loader.train * global_step[2]
              /\ IntOf(global_step) = (epoch + 1) * data_loader.train

\* C12 witness: two different views of two samples each have been fused
C12_Witness ==
    /\ eval_pc = "done"
    /\ use_tta
    /\ Len(tta) = 2
    /\ Len(tta[1]) = 2
    /\ Len(tta[2]) = 2
    /\ tta[1] # tta[2]
    /\ score # <<>>

====
